---- MODULE Spec2Model ----
(***************************************************************************)
(* Model of examples/resister_CA/resister_CA.ino of CM01-SARA-R: the       *)
(* sketch (setup, loop, registerCaCertificate) driving the ModemHandler    *)
(* AT-command engine, with the modem as an environment process writing     *)
(* into the serial receive buffer.                                         *)
(*                                                                         *)
(* Text is a sequence of one-character strings, so that indexOf,           *)
(* substring, prefix and containment tests are computed, not assumed.      *)
(***************************************************************************)
EXTENDS Integers, Sequences, FiniteSets, TLC

VARIABLES
    pc,             \* position of the sketch (setup / loop / registerCaCertificate)
    asyncPrefixes,  \* ModemHandler: configured async response prefixes
    endCriteria,    \* ModemHandler: configured response end criteria
    promptEnabled,  \* ModemHandler: prompt gate armed?
    promptChar,     \* ModemHandler: marker of the armed gate
    rxQueue,        \* serial receive buffer: modem output not yet read
    lineBuf,        \* ModemHandler: partial line kept between polls
    responses,      \* the std::vector<String> handed to getResponses
    lastRet,        \* return value of the last getResponses call
    notifications,  \* async lines delivered on the notification path
    tx,             \* what was written to the modem, in order
    serialOut,      \* what was printed on the serial monitor, in order
    pemData,        \* registerCaCertificate: argument pemData
    startIdx,       \* registerCaCertificate: local startIdx
    result,         \* registerCaCertificate: return value ("none" before)
    emitted,        \* history: everything the modem has sent
    calls           \* history: ModemHandler calls made by the sketch

vars == <<pc, asyncPrefixes, endCriteria, promptEnabled, promptChar, rxQueue,
          lineBuf, responses, lastRet, notifications, tx, serialOut, pemData,
          startIdx, result, emitted, calls>>

(***************************************************************************)
(* Bounds of the model.                                                    *)
(***************************************************************************)
MaxPemLen == 2      \* longest payload handed to registerCaCertificate
MaxEmit == 3        \* number of chunks the modem sends in one run
MaxLineLen == 3     \* longest generated line put to the pattern matcher
MaxPatLen == 2      \* longest generated pattern put to the pattern matcher

(***************************************************************************)
(* Texts.                                                                  *)
(***************************************************************************)
LF == "\n"

TxtOK == <<"O", "K">>
TxtERROR == <<"E", "R", "R", "O", "R">>
TxtCmeStar == <<"+", "C", "M", "E", " ", "E", "R", "R", "O", "R", ":", "*">>
TxtUFOTASTAT == <<"+", "U", "F", "O", "T", "A", "S", "T", "A", "T", ":">>
TxtULWM2MSTAT == <<"+", "U", "L", "W", "M", "2", "M", "S", "T", "A", "T", ":">>
TxtUUPSDA == <<"+", "U", "U", "P", "S", "D", "A", ":">>
TxtUUSIMSTAT == <<"+", "U", "U", "S", "I", "M", "S", "T", "A", "T", ":">>
TxtSimStatLine == TxtUUSIMSTAT \o <<" ", "1">>
TxtEcho == <<"A", "T">>
TxtEchoPrompt == <<"A", "T", " ", ">">>
TxtPrompt == <<">">>

(***************************************************************************)
(* Arduino String operations used by the sketch (0-based indices).         *)
(***************************************************************************)
\* String::indexOf(char ch, unsigned int fromIndex): -1 when absent
IndexOfFrom(s, ch, from) ==
    LET hits == {i \in from..(Len(s) - 1) : s[i + 1] = ch}
    IN IF hits = {} THEN -1 ELSE CHOOSE i \in hits : \A j \in hits : i <= j

\* String::indexOf(const String &s2): -1 when absent
IndexOfStr(s, pat) ==
    LET hits == {i \in 0..(Len(s) - Len(pat)) : SubSeq(s, i + 1, i + Len(pat)) = pat}
    IN IF hits = {} THEN -1 ELSE CHOOSE i \in hits : \A j \in hits : i <= j

\* String::substring(left, right): swaps when left > right, empty when
\* left >= length, right capped at length
Substring(s, left, right) ==
    LET l == IF left > right THEN right ELSE left
        r0 == IF left > right THEN left ELSE right
        r == IF r0 > Len(s) THEN Len(s) ELSE r0
    IN IF l >= Len(s) THEN <<>> ELSE SubSeq(s, l + 1, r)

\* String::startsWith
StartsWith(s, pre) ==
    Len(pre) <= Len(s) /\ SubSeq(s, 1, Len(pre)) = pre

Last(v) == v[Len(v)]

(***************************************************************************)
(* The modem: what it may write on the serial line.  A chunk is a text     *)
(* with or without its line delimiter; the bare prompt comes without one.  *)
(* One text stands for each kind of output: a positive and a negative      *)
(* terminal line, an async notification, a plain line, a line holding the  *)
(* prompt marker and the bare marker.                                      *)
(***************************************************************************)
Chunk(text, nl) == [text |-> text, nl |-> nl]

ModemChunks ==
    { Chunk(TxtOK, TRUE), Chunk(TxtERROR, TRUE), Chunk(TxtSimStatLine, TRUE),
      Chunk(TxtEcho, TRUE), Chunk(TxtEchoPrompt, TRUE), Chunk(TxtPrompt, FALSE) }

\* payloads handed to registerCaCertificate: text over one letter and LF
RECURSIVE TextsUpTo(_)
TextsUpTo(n) ==
    IF n = 0 THEN {<<>>}
    ELSE LET shorter == TextsUpTo(n - 1)
         IN shorter \cup {Append(t, c) : t \in {u \in shorter : Len(u) = n - 1},
                                         c \in {"a", LF}}

Payloads == TextsUpTo(MaxPemLen)

(***************************************************************************)
(* ModemHandler (CM01-SARA-R.h): the engine behind the calls of the        *)
(* sketch.                                                                 *)
(***************************************************************************)
\* variant: the text before '*' is looked for anywhere in the line
MatchesPattern_WildcardAnywhere(line, pat) ==
    IF pat # <<>> /\ Last(pat) = "*"
    THEN IndexOfStr(line, SubSeq(pat, 1, Len(pat) - 1)) # -1
    ELSE IndexOfStr(line, pat) # -1

\* PatternMatcher: a pattern ending in '*' matches by prefix, a literal
\* pattern by containment
MatchesPattern(line, pat) ==
    IF pat # <<>> /\ Last(pat) = "*"
    THEN StartsWith(line, SubSeq(pat, 1, Len(pat) - 1))
    ELSE IndexOfStr(line, pat) # -1

MatchesEndCriteria(line) == \E pat \in endCriteria : MatchesPattern(line, pat)

\* AsyncNotificationRouter: prefix match at line start
IsAsyncLine(line) == \E pre \in asyncPrefixes : StartsWith(line, pre)

\* PromptGate: armed and the text contains the marker
IsPromptEvent(text) ==
    promptEnabled /\ IndexOfFrom(text, promptChar, 0) # -1

WaitPcs == {"setup_wait", "reg_wait1", "reg_wait2"}

AfterWait(p) ==
    CASE p = "setup_wait" -> "setup_check"
      [] p = "reg_wait1" -> "reg_check1"
      [] p = "reg_wait2" -> "reg_check2"

Fn(p) == IF p \in {"setup_init", "setup_send", "setup_call", "setup_wait", "setup_check"}
         THEN "setup" ELSE "reg"

\* an entry of the call history; a return entry carries the value returned
\* and the lines handed back
Call(op) == [fn |-> Fn(pc), op |-> op, ret |-> FALSE, resp |-> <<>>]

\* getResponses left with the given value
GetResponsesReturn(value) ==
    /\ lastRet' = value
    /\ pc' = AfterWait(pc)
    /\ calls' = Append(calls, [fn |-> Fn(pc), op |-> "getResponses.return",
                               ret |-> value, resp |-> responses'])

\* variant: the newest chunk of the receive buffer is read first
GetResponses_Poll_NewestFirst ==
    /\ pc \in WaitPcs
    /\ rxQueue # <<>>
    /\ LET chunk == Last(rxQueue)
           text == lineBuf \o chunk.text
       IN /\ rxQueue' = SubSeq(rxQueue, 1, Len(rxQueue) - 1)
          /\ IF IsAsyncLine(text) /\ chunk.nl
             THEN \* routed to the notification path, not collected
                  /\ notifications' = Append(notifications, text)
                  /\ lineBuf' = <<>>
                  /\ UNCHANGED <<responses, lastRet, pc, calls>>
             ELSE IF IsPromptEvent(text) /\ ~IsAsyncLine(text)
             THEN \* prompt event: control goes back to the caller
                  /\ responses' = Append(responses, text)
                  /\ lineBuf' = <<>>
                  /\ GetResponsesReturn(TRUE)
                  /\ UNCHANGED notifications
             ELSE IF chunk.nl
             THEN \* a complete response line: append, then test the newest line
                  /\ responses' = Append(responses, text)
                  /\ lineBuf' = <<>>
                  /\ IF MatchesEndCriteria(text)
                     THEN GetResponsesReturn(TRUE)
                     ELSE UNCHANGED <<lastRet, pc, calls>>
                  /\ UNCHANGED notifications
             ELSE \* no complete line yet
                  /\ lineBuf' = text
                  /\ UNCHANGED <<responses, lastRet, pc, calls, notifications>>
    /\ UNCHANGED <<asyncPrefixes, endCriteria, promptEnabled, promptChar, tx,
                   serialOut, pemData, startIdx, result, emitted>>

\* variant: the text of a prompt event is not put into the collected lines
GetResponses_Poll_PromptNotAppended ==
    /\ pc \in WaitPcs
    /\ rxQueue # <<>>
    /\ LET chunk == Head(rxQueue)
           text == lineBuf \o chunk.text
       IN /\ rxQueue' = Tail(rxQueue)
          /\ IF IsAsyncLine(text) /\ chunk.nl
             THEN \* routed to the notification path, not collected
                  /\ notifications' = Append(notifications, text)
                  /\ lineBuf' = <<>>
                  /\ UNCHANGED <<responses, lastRet, pc, calls>>
             ELSE IF IsPromptEvent(text) /\ ~IsAsyncLine(text)
             THEN \* prompt event: control goes back to the caller
                  /\ responses' = responses
                  /\ lineBuf' = <<>>
                  /\ GetResponsesReturn(TRUE)
                  /\ UNCHANGED notifications
             ELSE IF chunk.nl
             THEN \* a complete response line: append, then test the newest line
                  /\ responses' = Append(responses, text)
                  /\ lineBuf' = <<>>
                  /\ IF MatchesEndCriteria(text)
                     THEN GetResponsesReturn(TRUE)
                     ELSE UNCHANGED <<lastRet, pc, calls>>
                  /\ UNCHANGED notifications
             ELSE \* no complete line yet
                  /\ lineBuf' = text
                  /\ UNCHANGED <<responses, lastRet, pc, calls, notifications>>
    /\ UNCHANGED <<asyncPrefixes, endCriteria, promptEnabled, promptChar, tx,
                   serialOut, pemData, startIdx, result, emitted>>

\* one poll of getResponses: read the next chunk, frame it, route it
GetResponses_Poll ==
    /\ pc \in WaitPcs
    /\ rxQueue # <<>>
    /\ LET chunk == Head(rxQueue)
           text == lineBuf \o chunk.text
       IN /\ rxQueue' = Tail(rxQueue)
          /\ IF IsAsyncLine(text) /\ chunk.nl
             THEN \* routed to the notification path, not collected
                  /\ notifications' = Append(notifications, text)
                  /\ lineBuf' = <<>>
                  /\ UNCHANGED <<responses, lastRet, pc, calls>>
             ELSE IF IsPromptEvent(text) /\ ~IsAsyncLine(text)
             THEN \* prompt event: control goes back to the caller
                  /\ responses' = Append(responses, text)
                  /\ lineBuf' = <<>>
                  /\ GetResponsesReturn(TRUE)
                  /\ UNCHANGED notifications
             ELSE IF chunk.nl
             THEN \* a complete response line: append, then test the newest line
                  /\ responses' = Append(responses, text)
                  /\ lineBuf' = <<>>
                  /\ IF MatchesEndCriteria(text)
                     THEN GetResponsesReturn(TRUE)
                     ELSE UNCHANGED <<lastRet, pc, calls>>
                  /\ UNCHANGED notifications
             ELSE \* no complete line yet
                  /\ lineBuf' = text
                  /\ UNCHANGED <<responses, lastRet, pc, calls, notifications>>
    /\ UNCHANGED <<asyncPrefixes, endCriteria, promptEnabled, promptChar, tx,
                   serialOut, pemData, startIdx, result, emitted>>

\* variant: the gate is disarmed when the deadline passes
GetResponses_Timeout_Disarms ==
    /\ pc \in WaitPcs
    /\ responses' = responses
    /\ GetResponsesReturn(FALSE)
    /\ promptEnabled' = FALSE
    /\ UNCHANGED <<asyncPrefixes, endCriteria, promptChar, rxQueue,
                   lineBuf, notifications, tx, serialOut, pemData,
                   startIdx, result, emitted>>

\* variant: the lines collected so far are dropped when the deadline passes
GetResponses_Timeout_Clears ==
    /\ pc \in WaitPcs
    /\ responses' = <<>>
    /\ GetResponsesReturn(FALSE)
    /\ UNCHANGED <<asyncPrefixes, endCriteria, promptEnabled, promptChar, rxQueue,
                   lineBuf, notifications, tx, serialOut, pemData,
                   startIdx, result, emitted>>

\* the deadline of getResponses passes before a terminal line
GetResponses_Timeout ==
    /\ pc \in WaitPcs
    /\ responses' = responses
    /\ GetResponsesReturn(FALSE)
    /\ UNCHANGED <<asyncPrefixes, endCriteria, promptEnabled, promptChar, rxQueue,
                   lineBuf, notifications, tx, serialOut, pemData,
                   startIdx, result, emitted>>

\* the modem writes one more chunk on the serial line
Modem_Emit ==
    /\ pc \notin {"setup_init", "halt"}
    /\ Len(emitted) < MaxEmit
    /\ \E chunk \in ModemChunks :
          /\ rxQueue' = Append(rxQueue, chunk)
          /\ emitted' = Append(emitted, chunk)
    /\ UNCHANGED <<pc, asyncPrefixes, endCriteria, promptEnabled, promptChar,
                   lineBuf, responses, lastRet, notifications, tx, serialOut,
                   pemData, startIdx, result, calls>>

Println(text) == [text |-> text, arg |-> <<>>]
PrintText(prefix, arg) == [text |-> prefix, arg |-> arg]

(***************************************************************************)
(* The sketch: setup().                                                    *)
(***************************************************************************)
Init ==
    /\ pc = "setup_init"
    /\ asyncPrefixes = {}
    /\ endCriteria = {}
    /\ promptEnabled = FALSE
    /\ promptChar = ""
    /\ rxQueue = <<>>
    /\ lineBuf = <<>>
    /\ responses = <<>>
    /\ lastRet = FALSE
    /\ notifications = <<>>
    /\ tx = <<>>
    /\ serialOut = <<>>
    /\ pemData = <<>>
    /\ startIdx = 0
    /\ result = "none"
    /\ emitted = <<>>
    /\ calls = <<>>

\* variant: "ERROR" is missing from the response end criteria
Setup_Init_NoErrorCriterion ==
    /\ pc = "setup_init"
    /\ serialOut' = Append(serialOut, Println("Initializing modem..."))
    /\ asyncPrefixes' = {TxtUFOTASTAT, TxtULWM2MSTAT, TxtUUPSDA, TxtUUSIMSTAT}
    /\ endCriteria' = {TxtOK, TxtCmeStar}
    /\ pc' = "setup_send"
    /\ UNCHANGED <<promptEnabled, promptChar, rxQueue, lineBuf, responses, lastRet,
                   notifications, tx, pemData, startIdx, result, emitted, calls>>

\* variant: "+UUSIMSTAT:" is missing from the async response prefixes
Setup_Init_NoSimStatPrefix ==
    /\ pc = "setup_init"
    /\ serialOut' = Append(serialOut, Println("Initializing modem..."))
    /\ asyncPrefixes' = {TxtUFOTASTAT, TxtULWM2MSTAT, TxtUUPSDA}
    /\ endCriteria' = {TxtOK, TxtERROR, TxtCmeStar}
    /\ pc' = "setup_send"
    /\ UNCHANGED <<promptEnabled, promptChar, rxQueue, lineBuf, responses, lastRet,
                   notifications, tx, pemData, startIdx, result, emitted, calls>>

\* Serial.begin .. modem->begin(): configuration of the engine
Setup_Init ==
    /\ pc = "setup_init"
    /\ serialOut' = Append(serialOut, Println("Initializing modem..."))
    /\ asyncPrefixes' = {TxtUFOTASTAT, TxtULWM2MSTAT, TxtUUPSDA, TxtUUSIMSTAT}
    /\ endCriteria' = {TxtOK, TxtERROR, TxtCmeStar}
    /\ pc' = "setup_send"
    /\ UNCHANGED <<promptEnabled, promptChar, rxQueue, lineBuf, responses, lastRet,
                   notifications, tx, pemData, startIdx, result, emitted, calls>>

\* variant: setup does not wait for the response to "AT"
Setup_SendAT_NoWait ==
    /\ pc = "setup_send"
    /\ tx' = Append(tx, [kind |-> "cmd", text |-> TxtEcho, len |-> 0])
    /\ calls' = Append(calls, Call("sendATCommand"))
    /\ responses' = <<>>
    /\ pc' = "loop_begin"
    /\ UNCHANGED <<asyncPrefixes, endCriteria, promptEnabled, promptChar, rxQueue,
                   lineBuf, lastRet, notifications, serialOut, pemData, startIdx,
                   result, emitted>>

\* modem->sendATCommand("AT"); std::vector<String> responses;
Setup_SendAT ==
    /\ pc = "setup_send"
    /\ tx' = Append(tx, [kind |-> "cmd", text |-> TxtEcho, len |-> 0])
    /\ calls' = Append(calls, Call("sendATCommand"))
    /\ responses' = <<>>
    /\ pc' = "setup_call"
    /\ UNCHANGED <<asyncPrefixes, endCriteria, promptEnabled, promptChar, rxQueue,
                   lineBuf, lastRet, notifications, serialOut, pemData, startIdx,
                   result, emitted>>

\* a call of getResponses(&responses, 5000) from position p: a new collection
GetResponsesCall(next) ==
    /\ responses' = <<>>
    /\ calls' = Append(calls, Call("getResponses"))
    /\ pc' = next

Setup_GetResponses ==
    /\ pc = "setup_call"
    /\ GetResponsesCall("setup_wait")
    /\ UNCHANGED <<asyncPrefixes, endCriteria, promptEnabled, promptChar, rxQueue,
                   lineBuf, lastRet, notifications, tx, serialOut, pemData,
                   startIdx, result, emitted>>

\* the if after getResponses in setup; loop() is entered either way
Setup_Check ==
    /\ pc = "setup_check"
    /\ serialOut' = Append(serialOut,
                           IF lastRet THEN Println("Modem initialized successfully!")
                                      ELSE Println("Modem initialization failed."))
    /\ pc' = "loop_begin"
    /\ UNCHANGED <<asyncPrefixes, endCriteria, promptEnabled, promptChar, rxQueue,
                   lineBuf, responses, lastRet, notifications, tx, pemData,
                   startIdx, result, emitted, calls>>

(***************************************************************************)
(* The sketch: registerCaCertificate(certName, pemData), called by loop(). *)
(***************************************************************************)
\* variant: another marker character
Prompt_Hash == "#"

\* const char prompt = '>'
Prompt == ">"

\* command = "AT+USECMNG=0,0,\"" + certName + "\"," + String(pemData.length())
Command(pem) == [kind |-> "cmd", text |-> <<"AT+USECMNG=0,0">>, len |-> Len(pem)]

\* loop() calls registerCaCertificate; it sends the command
Reg_SendCommand ==
    /\ pc = "loop_begin"
    /\ \E pem \in Payloads :
          /\ pemData' = pem
          /\ tx' = Append(tx, Command(pem))
    /\ responses' = <<>>
    /\ calls' = Append(calls, [fn |-> "reg", op |-> "sendATCommand",
                               ret |-> FALSE, resp |-> <<>>])
    /\ pc' = "reg_enable"
    /\ UNCHANGED <<asyncPrefixes, endCriteria, promptEnabled, promptChar, rxQueue,
                   lineBuf, lastRet, notifications, serialOut, startIdx, result,
                   emitted>>

\* modem->setEnablePrompt(prompt)
Reg_EnablePrompt ==
    /\ pc = "reg_enable"
    /\ promptEnabled' = TRUE
    /\ promptChar' = Prompt
    /\ calls' = Append(calls, Call("setEnablePrompt"))
    /\ pc' = "reg_call1"
    /\ UNCHANGED <<asyncPrefixes, endCriteria, rxQueue, lineBuf, responses, lastRet,
                   notifications, tx, serialOut, pemData, startIdx, result, emitted>>

\* the prompt wait: getResponses(&responses, 5000) is called
Reg_AwaitPrompt ==
    /\ pc = "reg_call1"
    /\ GetResponsesCall("reg_wait1")
    /\ UNCHANGED <<asyncPrefixes, endCriteria, promptEnabled, promptChar, rxQueue,
                   lineBuf, lastRet, notifications, tx, serialOut, pemData,
                   startIdx, result, emitted>>

\* where registerCaCertificate goes after the prompt wait:
\*   "return" on a last line without the prompt, else on to setDisablePrompt
AfterPromptWait(ret, resp) ==
    IF ret /\ IndexOfFrom(Last(resp), Prompt, 0) = -1 THEN "return" ELSE "disable"

\* the if / else after the prompt wait
Reg_CheckPrompt ==
    /\ pc = "reg_check1"
    /\ IF AfterPromptWait(lastRet, responses) = "return"
       THEN /\ serialOut' = Append(serialOut,
                                   Println("Error: Expected '>' prompt not received."))
            /\ result' = "false"
            /\ pc' = "loop_report"
       ELSE /\ serialOut' = IF lastRet THEN serialOut
                            ELSE Append(serialOut,
                                        Println("Error: Expected modem is not responding."))
            /\ result' = result
            /\ pc' = "reg_disable"
    /\ UNCHANGED <<asyncPrefixes, endCriteria, promptEnabled, promptChar, rxQueue,
                   lineBuf, responses, lastRet, notifications, tx, pemData,
                   startIdx, emitted, calls>>

\* variant: the call of setDisablePrompt is left out
Reg_DisablePrompt_Omitted ==
    /\ pc = "reg_disable"
    /\ serialOut' = Append(serialOut, Println("Sending PEM data line by line..."))
    /\ startIdx' = 0
    /\ pc' = "reg_loop"
    /\ UNCHANGED <<asyncPrefixes, endCriteria, promptEnabled, promptChar, rxQueue,
                   lineBuf, responses, lastRet, notifications, tx, pemData, result,
                   emitted, calls>>

\* modem->setDisablePrompt(); ...; int startIdx = 0
Reg_DisablePrompt ==
    /\ pc = "reg_disable"
    /\ promptEnabled' = FALSE
    /\ calls' = Append(calls, Call("setDisablePrompt"))
    /\ serialOut' = Append(serialOut, Println("Sending PEM data line by line..."))
    /\ startIdx' = 0
    /\ pc' = "reg_loop"
    /\ UNCHANGED <<asyncPrefixes, endCriteria, promptChar, rxQueue, lineBuf,
                   responses, lastRet, notifications, tx, pemData, result, emitted>>

\* endIdx of the iteration starting at start
EndIdx(pem, start) ==
    LET found == IndexOfFrom(pem, LF, start)
    IN IF found = -1 THEN Len(pem) ELSE found

\* variant: substring(0, endIdx + 1), every line sent from the start of the data
Line_FromStartOfData(pem, start) == Substring(pem, 0, EndIdx(pem, start) + 1)

\* variant: substring(startIdx, endIdx), the LF left out
Line_WithoutLF(pem, start) == Substring(pem, start, EndIdx(pem, start))

\* String line = pemData.substring(startIdx, endIdx + 1)
Line(pem, start) == Substring(pem, start, EndIdx(pem, start) + 1)

\* variant: startIdx = endIdx, the LF not stepped over
Reg_SendChunk_NoStep ==
    /\ pc = "reg_loop"
    /\ startIdx < Len(pemData)
    /\ tx' = Append(tx, [kind |-> "raw", text |-> Line(pemData, startIdx), len |-> 0])
    /\ calls' = Append(calls, Call("sendStringData"))
    /\ serialOut' = Append(serialOut, PrintText("Sent: ", Line(pemData, startIdx)))
    /\ startIdx' = EndIdx(pemData, startIdx)
    /\ UNCHANGED <<pc, asyncPrefixes, endCriteria, promptEnabled, promptChar, rxQueue,
                   lineBuf, responses, lastRet, notifications, pemData, result,
                   emitted>>

\* one iteration of the while loop
Reg_SendChunk ==
    /\ pc = "reg_loop"
    /\ startIdx < Len(pemData)
    /\ tx' = Append(tx, [kind |-> "raw", text |-> Line(pemData, startIdx), len |-> 0])
    /\ calls' = Append(calls, Call("sendStringData"))
    /\ serialOut' = Append(serialOut, PrintText("Sent: ", Line(pemData, startIdx)))
    /\ startIdx' = EndIdx(pemData, startIdx) + 1
    /\ UNCHANGED <<pc, asyncPrefixes, endCriteria, promptEnabled, promptChar, rxQueue,
                   lineBuf, responses, lastRet, notifications, pemData, result,
                   emitted>>

\* the loop is left; the final getResponses(&responses, 5000) is called
Reg_AwaitFinal ==
    /\ pc = "reg_loop"
    /\ ~(startIdx < Len(pemData))
    /\ serialOut' = Append(serialOut, Println("PEM data sent. Awaiting response..."))
    /\ GetResponsesCall("reg_wait2")
    /\ UNCHANGED <<asyncPrefixes, endCriteria, promptEnabled, promptChar, rxQueue,
                   lineBuf, lastRet, notifications, tx, pemData, startIdx, result,
                   emitted>>

\* variant: the last line is not looked at
FinalResult_LineIgnored(ret, resp) == IF ret THEN "true" ELSE "false"

\* what registerCaCertificate returns after the final getResponses
FinalResult(ret, resp) ==
    IF ret THEN (IF IndexOfStr(Last(resp), TxtOK) # -1 THEN "true" ELSE "false")
           ELSE "false"

\* the lines a successful registration prints: every response
RECURSIVE PrintAll(_)
PrintAll(resp) ==
    IF resp = <<>> THEN <<>>
    ELSE <<PrintText("", Head(resp))>> \o PrintAll(Tail(resp))

\* the if / else after the final getResponses
Reg_CheckFinal ==
    /\ pc = "reg_check2"
    /\ result' = FinalResult(lastRet, responses)
    /\ serialOut' = IF FinalResult(lastRet, responses) = "true"
                    THEN serialOut \o PrintAll(responses)
                    ELSE serialOut
    /\ pc' = "loop_report"
    /\ UNCHANGED <<asyncPrefixes, endCriteria, promptEnabled, promptChar, rxQueue,
                   lineBuf, responses, lastRet, notifications, tx, pemData,
                   startIdx, emitted, calls>>

\* loop() reports the outcome and halts
Loop_Report ==
    /\ pc = "loop_report"
    /\ serialOut' = Append(serialOut,
                           IF result = "true"
                           THEN Println("Certificate registered successfully!")
                           ELSE Println("Certificate registration failed."))
    /\ pc' = "halt"
    /\ UNCHANGED <<asyncPrefixes, endCriteria, promptEnabled, promptChar, rxQueue,
                   lineBuf, responses, lastRet, notifications, tx, pemData,
                   startIdx, result, emitted, calls>>

Next ==
    \/ Setup_Init
    \/ Setup_SendAT
    \/ Setup_GetResponses
    \/ GetResponses_Poll
    \/ GetResponses_Timeout
    \/ Modem_Emit
    \/ Setup_Check
    \/ Reg_SendCommand
    \/ Reg_EnablePrompt
    \/ Reg_AwaitPrompt
    \/ Reg_CheckPrompt
    \/ Reg_DisablePrompt
    \/ Reg_SendChunk
    \/ Reg_AwaitFinal
    \/ Reg_CheckFinal
    \/ Loop_Report

Spec == Init /\ [][Next]_vars

TypeOK ==
    /\ pc \in {"setup_init", "setup_send", "setup_call", "setup_wait", "setup_check",
               "loop_begin", "reg_enable", "reg_call1", "reg_wait1", "reg_check1",
               "reg_disable", "reg_loop", "reg_wait2", "reg_check2", "loop_report",
               "halt"}
    /\ promptEnabled \in BOOLEAN
    /\ lastRet \in BOOLEAN
    /\ result \in {"none", "true", "false"}
    /\ startIdx \in 0..(MaxPemLen + 1)
    /\ Len(emitted) <= MaxEmit

(***************************************************************************)
(* Histories read off the state.                                           *)
(***************************************************************************)
\* the ModemHandler calls made inside registerCaCertificate, in order
RegCalls == SelectSeq(calls, LAMBDA c : c.fn = "reg")

RegOps == [i \in 1..Len(RegCalls) |-> RegCalls[i].op]

\* the chunks handed to sendStringData, in order
RawWrites == SelectSeq(tx, LAMBDA w : w.kind = "raw")

Sent == [i \in 1..Len(RawWrites) |-> RawWrites[i].text]

HasPrompt(text) == \E i \in 1..Len(text) : text[i] = ">"

HasOK(text) == \E i \in 1..(Len(text) - 1) : text[i] = "O" /\ text[i + 1] = "K"

\* the prompt wait is the first getResponses of registerCaCertificate: its
\* return is the 4th call entry
PromptWaitReturned == Len(RegCalls) >= 4

PromptWait == RegCalls[4]

PromptReceived ==
    PromptWait.ret /\ PromptWait.resp # <<>> /\ HasPrompt(Last(PromptWait.resp))

\* the final getResponses has returned
FinalWaitReturned ==
    /\ Len(RegCalls) > 4
    /\ Last(RegCalls).op = "getResponses.return"

FinalWait == Last(RegCalls)

Returned == pc \in {"loop_report", "halt"}

(***************************************************************************)
(* C1.  If the prompt wait ends without '>' received (timeout, or success  *)
(* with a last line lacking '>'), registerCaCertificate returns false and  *)
(* makes no sendStringData call.                                           *)
(***************************************************************************)
C1_NoDataWithoutPrompt ==
    (PromptWaitReturned /\ ~PromptReceived)
        => /\ Sent = <<>>
           /\ Returned => result = "false"

(***************************************************************************)
(* C2.  An execution of registerCaCertificate that sends payload data      *)
(* makes its calls in the order sendATCommand, setEnablePrompt,            *)
(* getResponses (and its return), setDisablePrompt, the sendStringData     *)
(* calls, getResponses; no chunk is sent with the gate armed, and the      *)
(* final getResponses starts when the whole payload has been consumed.     *)
(***************************************************************************)
IsPrefixOf(a, b) == Len(a) <= Len(b) /\ SubSeq(b, 1, Len(a)) = a

C2_Head ==
    <<"sendATCommand", "setEnablePrompt", "getResponses", "getResponses.return",
      "setDisablePrompt">>

C2_Tail == <<"getResponses", "getResponses.return">>

C2_ProtocolOrder ==
    Sent # <<>> =>
        /\ ~promptEnabled
        /\ IsPrefixOf(C2_Head, RegOps)
        /\ \E k \in 1..Len(pemData) :
              /\ k = Len(Sent)
              /\ \A i \in 1..k : RegOps[5 + i] = "sendStringData"
              /\ IsPrefixOf(SubSeq(RegOps, 6 + k, Len(RegOps)), C2_Tail)
              /\ (Len(RegOps) > 5 + k => startIdx >= Len(pemData))

C2_Witness ==
    /\ pc = "halt"
    /\ Len(Sent) = 2
    /\ result = "true"
    /\ RegOps = C2_Head \o <<"sendStringData", "sendStringData">> \o C2_Tail

(***************************************************************************)
(* C3.  Whenever registerCaCertificate has returned, true or false, the    *)
(* prompt gate is disabled.                                                *)
(***************************************************************************)
C3_GateDisabledOnReturn == Returned => ~promptEnabled

(***************************************************************************)
(* C4.  For a payload of N LF-separated records the chunking loop makes    *)
(* exactly N sendStringData calls; every chunk is non-empty, has no LF     *)
(* before its end, and ends with LF, except possibly the last chunk of a   *)
(* payload without trailing LF.                                            *)
(***************************************************************************)
CountLF(text) == Cardinality({i \in 1..Len(text) : text[i] = LF})

\* number of LF-separated records: one per LF, plus the unterminated rest
Records(text) ==
    CountLF(text) + (IF text # <<>> /\ Last(text) # LF THEN 1 ELSE 0)

ChunkingDone == pc \in {"reg_wait2", "reg_check2"} \/ (Returned /\ Len(RegCalls) > 4)

C4_Chunking ==
    /\ ChunkingDone => Len(Sent) = Records(pemData)
    /\ \A i \in 1..Len(Sent) :
          /\ Sent[i] # <<>>
          /\ \A k \in 1..(Len(Sent[i]) - 1) : Sent[i][k] # LF
          /\ Last(Sent[i]) # LF =>
                /\ i = Len(Sent)
                /\ Last(pemData) # LF
                /\ startIdx >= Len(pemData)

C4_Witness ==
    /\ pc = "reg_wait2"
    /\ pemData = <<LF, "a">>
    /\ Sent = << <<LF>>, <<"a">> >>

(***************************************************************************)
(* C5.  A collection ends with success iff the most recently appended      *)
(* line matches some end criterion of {"OK", "ERROR", "+CME ERROR:*"};     *)
(* only the newest line is tested after each append, and no line is        *)
(* appended after the terminating line.                                    *)
(***************************************************************************)
CheckPcs == {"setup_check", "reg_check1", "reg_check2"}

\* the end criteria of the example, spelled out
C5_Criterion(line) ==
    \/ IndexOfStr(line, TxtOK) # -1
    \/ IndexOfStr(line, TxtERROR) # -1
    \/ StartsWith(line, SubSeq(TxtCmeStar, 1, Len(TxtCmeStar) - 1))

\* the collection ends on terminal lines and on nothing else
C5_EndsOn(terminal(_)) ==
    /\ pc \in CheckPcs =>
          /\ lastRet <=> (responses # <<>> /\ terminal(Last(responses)))
          /\ \A i \in 1..(Len(responses) - 1) : ~terminal(responses[i])
    /\ pc \in WaitPcs => \A i \in 1..Len(responses) : ~terminal(responses[i])

\* the claim as stated: the end criteria alone decide
C5_EndsOnCriterionOnly == C5_EndsOn(C5_Criterion)

\* C5 as amended: a collection ends with success iff the most recently
\* appended line matches some end criterion or, with the prompt gate armed,
\* contains the prompt marker
C5_Terminal(line) == C5_Criterion(line) \/ (promptEnabled /\ HasPrompt(line))

C5_EndsOnCriterionOrPrompt == C5_EndsOn(C5_Terminal)

C5_Witness ==
    /\ pc = "reg_check1"
    /\ lastRet
    /\ Len(responses) = 2
    /\ HasPrompt(Last(responses))
    /\ ~C5_Criterion(Last(responses))

(***************************************************************************)
(* C6.  A line starting with a configured async prefix is never appended   *)
(* to the collected response of a command, never ends the collection, and  *)
(* is delivered on the notification path at most once (exactly once when   *)
(* it is read during a collection).                                        *)
(***************************************************************************)
C6_AsyncLine(line) ==
    \E pre \in {TxtUFOTASTAT, TxtULWM2MSTAT, TxtUUPSDA, TxtUUSIMSTAT} :
        StartsWith(line, pre)

\* what the engine has read of the modem's output
Consumed == SubSeq(emitted, 1, Len(emitted) - Len(rxQueue))

Occurrences(seq, x) == Cardinality({i \in 1..Len(seq) : seq[i] = x})

ConsumedTexts == [i \in 1..Len(Consumed) |-> Consumed[i].text]

C6_State ==
    /\ \A i \in 1..Len(responses) : ~C6_AsyncLine(responses[i])
    /\ \A i \in 1..Len(calls) :
          \A k \in 1..Len(calls[i].resp) : ~C6_AsyncLine(calls[i].resp[k])
    /\ \A i \in 1..Len(notifications) :
          /\ C6_AsyncLine(notifications[i])
          /\ Occurrences(notifications, notifications[i])
                <= Occurrences(ConsumedTexts, notifications[i])

\* a poll that reads an async line delivers it once and goes on collecting
C6_Step ==
    (pc \in WaitPcs /\ rxQueue # <<>> /\ rxQueue' = Tail(rxQueue)
        /\ Head(rxQueue).nl /\ C6_AsyncLine(lineBuf \o Head(rxQueue).text))
    => /\ pc' = pc
       /\ responses' = responses
       /\ notifications' = Append(notifications, lineBuf \o Head(rxQueue).text)

C6_AsyncRouting == []C6_State /\ [][C6_Step]_vars

\* Scenario C: "+UUSIMSTAT: 1" arrives before the terminal "OK"
C6_Witness ==
    /\ pc = "reg_check2"
    /\ emitted = <<Chunk(TxtPrompt, FALSE), Chunk(TxtSimStatLine, TRUE),
                   Chunk(TxtOK, TRUE)>>
    /\ lastRet
    /\ responses = <<TxtOK>>
    /\ notifications = <<TxtSimStatLine>>

(***************************************************************************)
(* C7.  registerCaCertificate returns true iff the final getResponses      *)
(* returned success and the last collected line contains "OK"; a final     *)
(* timeout, and a terminal line without "OK" ("ERROR"), give false.        *)
(***************************************************************************)
C7_ReturnValue ==
    Returned =>
        /\ result \in {"true", "false"}
        /\ result = "true" <=>
              (FinalWaitReturned /\ FinalWait.ret /\ HasOK(Last(FinalWait.resp)))
        /\ (FinalWaitReturned /\ ~FinalWait.ret) => result = "false"
        /\ (FinalWaitReturned /\ FinalWait.ret
              /\ ~HasOK(Last(FinalWait.resp))) => result = "false"

C7_Witness ==
    /\ pc = "halt"
    /\ result = "true"
    /\ FinalWait.resp = <<TxtEcho, TxtOK>>

(***************************************************************************)
(* C8.  Transport timeout, negative terminal match and prompt-not-received *)
(* are each reported: whichever happens during registerCaCertificate, the  *)
(* flow reports failure.                                                   *)
(***************************************************************************)
PromptNotReceived == PromptWaitReturned /\ ~PromptReceived

FinalTimeout == FinalWaitReturned /\ ~FinalWait.ret

FinalNegative ==
    FinalWaitReturned /\ FinalWait.ret /\ ~HasOK(Last(FinalWait.resp))

C8_NoFailureSwallowed ==
    (Returned /\ (PromptNotReceived \/ FinalTimeout \/ FinalNegative))
        => result = "false"

(***************************************************************************)
(* C9.  Whenever registerCaCertificate returns false it has printed an     *)
(* error message on the serial monitor.                                    *)
(***************************************************************************)
ErrorMessages ==
    {"Error: Expected '>' prompt not received.",
     "Error: Expected modem is not responding."}

C9_ErrorPrintedOnFalse ==
    (Returned /\ result = "false")
        => \E i \in 1..Len(serialOut) : serialOut[i].text \in ErrorMessages

(***************************************************************************)
(* C10.  While the gate is armed, a received line or chunk that contains   *)
(* '>' anywhere is a prompt event: the wait ends at once with success and  *)
(* the text handed back, whether or not an end criterion matches; while    *)
(* the gate is disabled the same text does not end the wait.               *)
(***************************************************************************)
C10_Step ==
    (pc \in WaitPcs /\ rxQueue # <<>> /\ rxQueue' = Tail(rxQueue))
    => LET text == lineBuf \o Head(rxQueue).text
       IN /\ (promptEnabled /\ HasPrompt(text) /\ ~C6_AsyncLine(text))
                => /\ pc' = AfterWait(pc)
                   /\ lastRet'
                   /\ responses' = Append(responses, text)
          /\ (~promptEnabled /\ HasPrompt(text) /\ ~C5_Criterion(text))
                => /\ pc' = pc
                   /\ lastRet' = lastRet

C10_PromptEvent == [][C10_Step]_vars

\* "AT >" read as a plain line in setup, and as the prompt when armed
C10_Witness ==
    /\ pc = "reg_check1"
    /\ lastRet
    /\ responses = <<TxtEchoPrompt>>
    /\ calls[3].resp = <<TxtEchoPrompt, TxtOK>>

(***************************************************************************)
(* C11.  At most one command is outstanding: sendATCommand is never called *)
(* while the response of the command sent before is unresolved, that is    *)
(* before the getResponses call for it has returned (terminal line, prompt *)
(* event or timeout).                                                      *)
(***************************************************************************)
CommandIndexes == {i \in 1..Len(calls) : calls[i].op = "sendATCommand"}

\* the command sent by call i has been resolved before call j
ResolvedBetween(i, j) ==
    \E k \in (i + 1)..(j - 1) : calls[k].op = "getResponses.return"

\* commands written and not yet resolved
Outstanding ==
    {i \in CommandIndexes :
        ~\E k \in (i + 1)..Len(calls) : calls[k].op = "getResponses.return"}

C11_OneOutstanding ==
    /\ \A i, j \in CommandIndexes : i < j => ResolvedBetween(i, j)
    /\ Cardinality(Outstanding) <= 1
    /\ Len(SelectSeq(tx, LAMBDA w : w.kind = "cmd")) = Cardinality(CommandIndexes)

C11_Witness ==
    /\ Cardinality(CommandIndexes) = 2
    /\ Cardinality(Outstanding) = 1
    /\ pc = "reg_wait1"

(***************************************************************************)
(* C12.  Lines are processed strictly in arrival order: the receive buffer *)
(* is a queue, each poll takes its oldest chunk and puts the framed text   *)
(* at the end of the collected lines or of the notification stream in the  *)
(* same step; so the lines of a collection and the notification stream are *)
(* order-preserving subsequences of what the modem sent, and no async line *)
(* is delivered after a response line that arrived later.                  *)
(***************************************************************************)
RECURSIVE Concat(_)
Concat(texts) == IF texts = <<>> THEN <<>> ELSE Head(texts) \o Concat(Tail(texts))

\* lines, in order, are made of disjoint runs of consecutive texts, in order
RECURSIVE InOrderOf(_, _)
InOrderOf(lines, texts) ==
    IF lines = <<>> THEN TRUE
    ELSE IF texts = <<>> THEN FALSE
    ELSE \/ InOrderOf(lines, Tail(texts))
         \/ \E n \in 1..Len(texts) :
               /\ Concat(SubSeq(texts, 1, n)) = Head(lines)
               /\ InOrderOf(Tail(lines), SubSeq(texts, n + 1, Len(texts)))

C12_State ==
    /\ emitted = Consumed \o rxQueue
    /\ InOrderOf(responses, ConsumedTexts)
    /\ InOrderOf(notifications, ConsumedTexts)
    /\ \A i \in 1..Len(calls) : InOrderOf(calls[i].resp, ConsumedTexts)

C12_Step ==
    /\ rxQueue' # rxQueue =>
          \/ \E c \in ModemChunks : rxQueue' = Append(rxQueue, c)
          \/ /\ rxQueue # <<>>
             /\ rxQueue' = Tail(rxQueue)
             /\ LET text == lineBuf \o Head(rxQueue).text
                IN \/ /\ responses' = Append(responses, text)
                      /\ notifications' = notifications
                      /\ lineBuf' = <<>>
                   \/ /\ notifications' = Append(notifications, text)
                      /\ responses' = responses
                      /\ lineBuf' = <<>>
                   \/ /\ lineBuf' = text
                      /\ UNCHANGED <<responses, notifications>>
    /\ rxQueue' = rxQueue =>
          /\ UNCHANGED <<notifications, lineBuf>>
          /\ responses' \in {responses, <<>>}

C12_ArrivalOrder == []C12_State /\ [][C12_Step]_vars

C12_Witness ==
    /\ pc = "setup_check"
    /\ emitted = <<Chunk(TxtEcho, TRUE), Chunk(TxtSimStatLine, TRUE), Chunk(TxtOK, TRUE)>>
    /\ responses = <<TxtEcho, TxtOK>>
    /\ notifications = <<TxtSimStatLine>>

(***************************************************************************)
(* C13.  Every getResponses call returns, with exactly one outcome, true   *)
(* or false, whatever the modem does, and registerCaCertificate            *)
(* terminates for every payload: the waits end at their deadline at the    *)
(* latest and every iteration of the chunking loop increases startIdx.     *)
(*                                                                         *)
(* Fairness: the sketch is the only thread and always takes its next step; *)
(* the clock advances, so a pending deadline expires.  Nothing is assumed  *)
(* of the modem.                                                           *)
(***************************************************************************)
SketchStep ==
    \/ Setup_Init
    \/ Setup_SendAT
    \/ Setup_GetResponses
    \/ Setup_Check
    \/ Reg_SendCommand
    \/ Reg_EnablePrompt
    \/ Reg_AwaitPrompt
    \/ Reg_CheckPrompt
    \/ Reg_DisablePrompt
    \/ Reg_SendChunk
    \/ Reg_AwaitFinal
    \/ Reg_CheckFinal
    \/ Loop_Report

FairSpec == Spec /\ WF_vars(SketchStep) /\ WF_vars(GetResponses_Timeout)

CallCount(op) == Cardinality({i \in 1..Len(calls) : calls[i].op = op})

\* one return per call: a call without its return is the one in progress
C13_OneOutcome ==
    /\ CallCount("getResponses") - CallCount("getResponses.return")
          = (IF pc \in WaitPcs THEN 1 ELSE 0)
    /\ \A i \in 1..Len(calls) :
          calls[i].op = "getResponses" =>
              (i < Len(calls) => calls[i + 1].op = "getResponses.return")

C13_LoopStep ==
    (pc = "reg_loop" /\ pc' = "reg_loop" /\ tx' # tx)
        => (startIdx' > startIdx /\ startIdx' <= Len(pemData) + 1)

\* the sketch halts only past its waits (setup's, the prompt wait, and the
\* final wait unless it returned early), so reaching the halt in every
\* behaviour means that each getResponses call entered has returned
C13_Termination ==
    /\ []C13_OneOutcome
    /\ [][C13_LoopStep]_vars
    /\ <>(pc = "halt")

\* the modem sends nothing at all and the call still comes to its end
C13_Witness ==
    /\ pc = "halt"
    /\ emitted = <<>>
    /\ Len(Sent) = 2
    /\ CallCount("getResponses.return") = 3

(***************************************************************************)
(* C14.  The prompt gate changes only through explicit calls:              *)
(* setEnablePrompt takes it from disabled to armed, setDisablePrompt from  *)
(* armed to disabled; a prompt event, a terminal match, a deadline expiry, *)
(* sendATCommand and sendStringData leave it as it is.                     *)
(***************************************************************************)
\* the step is a call of the given ModemHandler operation
StepCalls(op) == Len(calls') = Len(calls) + 1 /\ Last(calls').op = op

C14_Step ==
    /\ (promptEnabled' # promptEnabled \/ promptChar' # promptChar)
          => \/ StepCalls("setEnablePrompt") /\ ~promptEnabled /\ promptEnabled'
             \/ /\ StepCalls("setDisablePrompt")
                /\ promptEnabled /\ ~promptEnabled'
                /\ promptChar' = promptChar
    /\ StepCalls("setEnablePrompt") => promptEnabled'
    /\ StepCalls("setDisablePrompt") => ~promptEnabled'
    /\ (StepCalls("sendATCommand") \/ StepCalls("sendStringData")
          \/ StepCalls("getResponses") \/ StepCalls("getResponses.return")
          \/ rxQueue' # rxQueue)
          => UNCHANGED <<promptEnabled, promptChar>>

C14_GateFrame == [][C14_Step]_vars

\* the gate armed, a deadline expired, data sent after the explicit disarming
C14_Witness ==
    /\ pc = "reg_wait2"
    /\ ~promptEnabled
    /\ RegOps = C2_Head \o <<"sendStringData", "getResponses">>
    /\ ~PromptWait.ret

(***************************************************************************)
(* C15.  Pattern matching of a line against an end criterion: a pattern    *)
(* ending in '*' matches exactly the lines that begin with its text before *)
(* the '*'; a literal pattern matches exactly the lines that contain it;   *)
(* matching is case-sensitive; the empty line matches no pattern.          *)
(*                                                                         *)
(* The matcher is put to work on its own: one configured criterion, one    *)
(* line, one test.  A criterion has a non-empty text (a criterion that is  *)
(* empty, or a lone '*', is a malformed configuration).                    *)
(***************************************************************************)
TxtCmePrefix == SubSeq(TxtCmeStar, 1, Len(TxtCmeStar) - 1)
TxtCme123 == TxtCmePrefix \o <<" ", "1", "2", "3">>
TxtCmeX == <<"+", "C", "M", "E", " ", "E", "R", "R", "O", "R", "X", ":", " ", "1">>
TxtCmeLower == <<"+", "c", "m", "e", " ", "e", "r", "r", "o", "r", ":", " ", "1">>
TxtCmeIndented == <<" ">> \o TxtCme123
TxtOkLower == <<"o", "k">>

RECURSIVE WordsUpTo(_, _)
WordsUpTo(alphabet, n) ==
    IF n = 0 THEN {<<>>}
    ELSE LET shorter == WordsUpTo(alphabet, n - 1)
         IN shorter \cup {Append(t, c) : t \in {u \in shorter : Len(u) = n - 1},
                                         c \in alphabet}

MatchAlphabet == {"A", "a", "*"}

MatchLines ==
    WordsUpTo(MatchAlphabet, MaxLineLen)
        \cup {TxtOK, TxtOkLower, TxtERROR, TxtCme123, TxtCmeX, TxtCmeLower,
              TxtCmeIndented, TxtEcho \o <<" ">> \o TxtOK}

MatchPatterns ==
    (WordsUpTo(MatchAlphabet, MaxPatLen) \ {<<>>, <<"*">>})
        \cup {TxtOK, TxtERROR, TxtCmeStar}

MatchInit ==
    /\ pc = "match_test"
    /\ asyncPrefixes = {}
    /\ \E pat \in MatchPatterns : endCriteria = {pat}
    /\ promptEnabled = FALSE
    /\ promptChar = ""
    /\ rxQueue = <<>>
    /\ lineBuf = <<>>
    /\ \E line \in MatchLines : responses = <<line>>
    /\ lastRet = FALSE
    /\ notifications = <<>>
    /\ tx = <<>>
    /\ serialOut = <<>>
    /\ pemData = <<>>
    /\ startIdx = 0
    /\ result = "none"
    /\ emitted = <<>>
    /\ calls = <<>>

\* the newest line is tested against the configured criterion
Match_Test ==
    /\ pc = "match_test"
    /\ lastRet' = MatchesEndCriteria(Last(responses))
    /\ pc' = "match_done"
    /\ UNCHANGED <<asyncPrefixes, endCriteria, promptEnabled, promptChar, rxQueue,
                   lineBuf, responses, notifications, tx, serialOut, pemData,
                   startIdx, result, emitted, calls>>

MatchNext == Match_Test

SpecMatch == MatchInit /\ [][MatchNext]_vars

\* character by character: line holds pat at offset d
HoldsAt(line, pat, d) ==
    /\ d + Len(pat) <= Len(line)
    /\ \A i \in 1..Len(pat) : line[d + i] = pat[i]

C15_Expected(line, pat) ==
    IF pat[Len(pat)] = "*"
    THEN HoldsAt(line, [i \in 1..(Len(pat) - 1) |-> pat[i]], 0)
    ELSE \E d \in 0..Len(line) : HoldsAt(line, pat, d)

C16_Step ==
    /\ pc \in WaitPcs =>
          \/ responses' = responses
          \/ /\ Len(responses') = Len(responses) + 1
             /\ SubSeq(responses', 1, Len(responses)) = responses
    /\ (pc \in WaitPcs /\ pc' = AfterWait(pc) /\ ~lastRet') =>
          /\ responses' = responses
          /\ rxQueue' = rxQueue
          /\ ~Last(calls').ret
          /\ Last(calls').resp = responses

C16_State ==
    (pc \in CheckPcs /\ ~lastRet) =>
        /\ Last(calls).resp = responses
        /\ InOrderOf(responses, ConsumedTexts)
        /\ \A i \in 1..Len(responses) : ~C5_Terminal(responses[i])

C16_PartialOnTimeout == []C16_State /\ [][C16_Step]_vars

\* two plain lines collected, then the deadline
C16_Witness ==
    /\ pc = "reg_check2"
    /\ ~lastRet
    /\ responses = <<TxtEcho, TxtEcho>>

(***************************************************************************)
(* C17.  The chunks handed to sendStringData, put together in call order,  *)
(* are pemData exactly, so the number of bytes streamed is the length      *)
(* announced in the AT+USECMNG command.                                    *)
(***************************************************************************)
RECURSIVE TotalLen(_)
TotalLen(texts) == IF texts = <<>> THEN 0 ELSE Len(Head(texts)) + TotalLen(Tail(texts))

\* the AT+USECMNG command written by registerCaCertificate
UsecmngWrites == SelectSeq(tx, LAMBDA w : w.kind = "cmd" /\ w.text = <<"AT+USECMNG=0,0">>)

C17_PayloadPreserved ==
    /\ Sent # <<>> => /\ IsPrefixOf(Concat(Sent), pemData)
                      /\ Len(Concat(Sent)) = (IF startIdx > Len(pemData)
                                              THEN Len(pemData) ELSE startIdx)
    /\ ChunkingDone =>
          /\ Concat(Sent) = pemData
          /\ Len(UsecmngWrites) = 1
          /\ TotalLen(Sent) = UsecmngWrites[1].len

C17_Witness ==
    /\ pc = "reg_wait2"
    /\ pemData = <<"a", LF>>
    /\ Sent = << <<"a", LF>> >>
    /\ UsecmngWrites[1].len = 2

(***************************************************************************)
(* C18.  If the modem initialization fails (the getResponses after "AT"    *)
(* in setup times out), no AT+USECMNG command is sent afterwards.          *)
(***************************************************************************)
\* setup's getResponses is the second call of the sketch; its return the third
SetupWaitReturned == Len(calls) >= 3

SetupFailed == SetupWaitReturned /\ ~calls[3].ret

C18_NoRegistrationAfterFailedInit == SetupFailed => UsecmngWrites = <<>>

====
